---------------------------- MODULE Spec2Model ----------------------------
(***************************************************************************)
(* The viewport of tangram-es (core/src/view/view.cpp): camera state, the  *)
(* dirty-flag recompute, the matrix derivation and the visible-tile walk;  *)
(* the screen culling of a Label (Label::updateTransform); and the mouse   *)
(* callbacks of the desktop application (osx/src/main.cpp).                *)
(*                                                                         *)
(* Number representation.  The code computes in float and double; the      *)
(* model computes in fixed point:                                          *)
(*   - world lengths are whole ticks, Metre ticks to the world unit the    *)
(*     code's (int) casts truncate to;                                     *)
(*   - zoom is a whole number of half levels (ZoomOne = 1.0), so that      *)
(*     fractional zoom exists and 2^zoom is computed with a square root;   *)
(*   - angles are whole ticks, RollStep ticks to 15 degrees; cos and sin   *)
(*     are read from a table at the nearest 15 degree step, scaled by      *)
(*     TrigOne.  A float's spacing grows with its magnitude: a roll whose  *)
(*     magnitude is below one step is kept to the tick, a larger one is    *)
(*     rounded to the nearest step (RoundRoll);                            *)
(*   - the aspect ratio is scaled by AspectOne, the field of view is in    *)
(*     1/FovOne radian.                                                    *)
(* view.h and the headers that set s_maxZoom, m_initZoom, m_pixelsPerTile, *)
(* HALF_CIRCUMFERENCE and the member defaults are not among the sources:   *)
(* their values here are scaled to the fixed-point world.                  *)
(***************************************************************************)
EXTENDS Integers, FiniteSets, Sequences, TLC

\* ------------------------------------------------------------ fixed point

\* 1.0 zoom level, in the half levels m_zoom is counted in
ZoomOne == 2
\* the world unit (a metre): what (int) vpBottomEdge truncates to, in ticks
Metre == 8
\* 15 degrees, in angle ticks
RollStep == 4
\* 1.0 as a cos or sin value
TrigOne == 1000
\* 1.0 as an aspect ratio
AspectOne == 1000
\* one radian, as a field-of-view value
FovOne == 1000

Abs(a) == IF a < 0 THEN -a ELSE a

Max(a, b) == IF a < b THEN b ELSE a

Min(a, b) == IF b < a THEN b ELSE a

\* C++ conversion of a quotient to int: truncation toward zero
TruncDiv(a, b) == IF a >= 0 THEN a \div b ELSE -((-a) \div b)

\* (int) v of a world length v: whole metres, in ticks
IntCast(v) == TruncDiv(v, Metre) * Metre

\* the largest r in lo..hi with r * r <= n, by bisection
RECURSIVE IsqrtIn(_, _, _)
IsqrtIn(n, lo, hi) ==
    IF lo >= hi THEN lo
    ELSE LET mid == (lo + hi + 1) \div 2
         IN  IF mid * mid <= n THEN IsqrtIn(n, mid, hi)
             ELSE IsqrtIn(n, lo, mid - 1)

\* floor of the square root, for n < 2^30
Isqrt(n) == IsqrtIn(n, 0, 32767)

RECURSIVE Pow2(_)
Pow2(n) == IF n <= 0 THEN 1 ELSE 2 * Pow2(n - 1)

\* (int) pow(2, zoom): floor(2^(zh/2)) = floor(sqrt(2^zh))
Pow2Zoom(zh) == Isqrt(Pow2(zh))

\* v * pow(2, -zoom) = v / sqrt(2^zh), exact at whole zoom levels
ScaleByZoom(v, zh) == Isqrt((v * v) \div Pow2(zh))

\* ------------------------------------------------------ program constants

\* View::s_maxZoom, in half levels
s_maxZoom == 3 * ZoomOne

\* View::m_initZoom ("arbitrary zoom for testing"), in half levels
m_initZoom == 16 * ZoomOne

\* View::m_pixelsPerTile
m_pixelsPerTile == 256

\* MapProjection::HALF_CIRCUMFERENCE, in ticks
HALF_CIRCUMFERENCE == 2000

TWO_PI == 24 * RollStep

PI == 12 * RollStep

HALF_PI == 6 * RollStep

\* sin at 0, 15, ..., 90 degrees
SinTable == <<0, 259, 500, 707, 866, 966, 1000>>

\* the 15 degree step nearest to angle a, in 0..23
StepOf(a) == ((a + (RollStep \div 2)) \div RollStep) % 24

SinStep(k) ==
    IF k <= 6 THEN SinTable[k + 1]
    ELSE IF k <= 12 THEN SinTable[12 - k + 1]
    ELSE IF k <= 18 THEN -SinTable[k - 12 + 1]
    ELSE -SinTable[24 - k + 1]

\* sin(a)
Sin(a) == SinStep(StepOf(a))

\* cos(a)
Cos(a) == SinStep((StepOf(a) + 6) % 24)

\* tan(x) for x in 1/FovOne radian, 0 <= x <= pi/4: the series through x^7
Tan(x) ==
    LET x2 == (x * x) \div FovOne
        x3 == (x2 * x) \div FovOne
        x5 == (x3 * x2) \div FovOne
        x7 == (x5 * x2) \div FovOne
    IN  x + x3 \div 3 + (2 * x5) \div 15 + (17 * x7) \div 315

\* ------------------------------------------------------------------ state

VARIABLES
    m_projection,    \* the installed MapProjection
    m_pixelScale,    \* pixels per point
    m_vpWidth,       \* screen width in pixels
    m_vpHeight,      \* screen height in pixels
    m_aspect,        \* m_vpWidth / m_vpHeight, scaled by AspectOne
    m_pos,           \* [x, y, z]: camera position; z is derived by updateMatrices
    m_zoom,          \* in half levels
    m_roll,          \* in angle ticks
    m_isZoomIn,      \* the zoom-direction hint
    m_width,         \* world-space width of the viewport
    m_height,        \* world-space height of the viewport
    m_view,          \* view matrix
    m_proj,          \* projection matrix
    m_viewProj,      \* m_proj * m_view
    m_visibleTiles,  \* set of TileID records [x, y, z]
    m_dirty,
    m_changed,
    lastCall,        \* history: the Call record of the call that led here
    script,          \* history: the calls made on a first View, each with the
                     \* state observed after it
    replay,          \* how many entries of script a second View has repeated
    m_transform,     \* Label: the LabelTransform last handed to updateTransform
    m_buffer,        \* Label: what transformID has stored for the label's id
    was_panning,     \* main.cpp
    last_mouse_up,   \* main.cpp, in clock ticks
    last_x_down,     \* main.cpp
    last_y_down,     \* main.cpp
    button1,         \* GLFW: the state glfwGetMouseButton reports for button 1
    cursor,          \* GLFW: the position glfwGetCursorPos reports
    clock,           \* GLFW: the time glfwGetTime reports, in clock ticks
    lastEvent        \* history: the last input event and the gesture it invoked

camera == <<m_projection, m_pixelScale, m_vpWidth, m_vpHeight, m_aspect,
            m_pos, m_zoom, m_roll, m_isZoomIn>>

derived == <<m_width, m_height, m_view, m_proj, m_viewProj, m_visibleTiles>>

\* the View and its history
viewVars == <<m_projection, m_pixelScale, m_vpWidth, m_vpHeight, m_aspect,
          m_pos, m_zoom, m_roll, m_isZoomIn, m_width, m_height, m_view,
          m_proj, m_viewProj, m_visibleTiles, m_dirty, m_changed, lastCall>>

twinVars == <<script, replay>>

labelVars == <<m_transform, m_buffer>>

inputVars == <<was_panning, last_mouse_up, last_x_down, last_y_down, button1,
           cursor, clock, lastEvent>>

vars == <<viewVars, twinVars, labelVars, inputVars>>

\* a call's record: its name, the value it hands to setZoom or setRoll, the
\* kind handed to setMapProjection or the screen size handed to
\* updateTransform (req, 0 for the other calls), whether it ran updateMatrices
\* and updateTiles, whether it is an update() that directly follows an
\* update(), and whether it left the matrices and the tiles as they were
Call(op, req) ==
    [op |-> op, req |-> req, recomputed |-> FALSE, again |-> FALSE,
     same |-> TRUE]

TileID(x, y, z) == [x |-> x, y |-> y, z |-> z]

\* a default-constructed glm::mat4
mat4 == [identity |-> TRUE]


\* --------------------------------------------------------- pure functions

\* a clamp that forgets the lower bound
clampHigh(z, lo, hi) == Min(z, hi)

\* glm::clamp(_z, 0.0f, s_maxZoom)
clamp(z, lo, hi) == Min(Max(z, lo), hi)

\* float rounding of an angle: exact below one step, else to the nearest step
\* (ties to the even step)
RoundRoll(v) ==
    IF Abs(v) < RollStep THEN v
    ELSE LET q == v \div RollStep
             r == v - q * RollStep
         IN  IF 2 * r < RollStep THEN q * RollStep
             ELSE IF 2 * r > RollStep THEN (q + 1) * RollStep
             ELSE IF q % 2 = 0 THEN q * RollStep ELSE (q + 1) * RollStep

\* glm::mod(x, y) = x - y * floor(x / y), the difference rounded as a float
mod(x, y) == RoundRoll(x - y * (x \div y))

\* 2 * HALF_CIRCUMFERENCE * pow(2, -m_zoom): world size of a tile at zoom
worldTileSize(zoom) == ScaleByZoom(2 * HALF_CIRCUMFERENCE, zoom)

\* (int) m_zoom, the tile level, in whole levels
intZoom(zoom) == zoom \div ZoomOne

\* 2 * HALF_CIRCUMFERENCE * pow(2, -(int) m_zoom)
tileSizeAt(zoom) == (2 * HALF_CIRCUMFERENCE) \div Pow2(intZoom(zoom))

\* int maxTileIndex = pow(2, m_zoom)
maxTileIndex(zoom) == Pow2Zoom(zoom)

\* (float) _width / (float) _height
aspectOf(w, h) == (w * AspectOne) \div h

\* updateMatrices: the values it assigns, from the camera state it reads
updateMatrices(zoom, vpHeight, aspect, pixelScale, roll) ==
    LET screenTileSize == m_pixelsPerTile * pixelScale
        height == (vpHeight * worldTileSize(zoom)) \div screenTileSize
        width == (height * aspect) \div AspectOne
        fovy0 == 1571
        fovy == IF width > height THEN (fovy0 * AspectOne) \div aspect ELSE fovy0
        z == ((height \div 2) * FovOne) \div Tan(fovy \div 2)
        near == z \div 50
        up == <<Cos(roll + HALF_PI), Sin(roll + HALF_PI), 0>>
        view == [eye |-> <<0, 0, 0>>, center |-> <<0, 0, -1>>, up |-> up]
        proj == [fovy |-> fovy, aspect |-> aspect, near |-> near,
                 far |-> z + Metre]
    IN  [width |-> width, height |-> height, z |-> z, view |-> view,
         proj |-> proj, viewProj |-> [proj |-> proj, view |-> view]]

\* width of the rolled viewport's bounding box
boundWidth(width, height, roll) ==
    (Abs(height * Sin(roll)) + Abs(width * Cos(roll))) \div TrigOne

\* height of the rolled viewport's bounding box
boundHeight(width, height, roll) ==
    (Abs(width * Sin(roll)) + Abs(height * Cos(roll))) \div TrigOne

\* tileY = (int) vpBottomEdge * invTileSize: the cast binds to vpBottomEdge,
\* the product is truncated by the assignment to the int
resetRow(vpBottomEdge, tileSize) == TruncDiv(IntCast(vpBottomEdge), tileSize)

\* the inner while loop: the rows of one column
RECURSIVE rowWalk(_, _, _, _, _, _, _)
rowWalk(tiles, tileX, tileY, vpTopEdge, tileSize, maxIndex, z) ==
    IF tileY * tileSize < vpTopEdge /\ tileY < maxIndex
    THEN rowWalk(tiles \cup {TileID(tileX, tileY, z)}, tileX, tileY + 1,
                 vpTopEdge, tileSize, maxIndex, z)
    ELSE tiles

\* the outer while loop: the columns, each after the first from resetRow
RECURSIVE columnWalk(_, _, _, _, _, _, _, _, _)
columnWalk(tiles, tileX, tileY, vpRightEdge, vpTopEdge, vpBottomEdge, tileSize, maxIndex, z) ==
    IF tileX * tileSize < vpRightEdge /\ tileX < maxIndex
    THEN columnWalk(rowWalk(tiles, tileX, tileY, vpTopEdge, tileSize,
                            maxIndex, z),
                    tileX + 1, resetRow(vpBottomEdge, tileSize), vpRightEdge,
                    vpTopEdge, vpBottomEdge, tileSize, maxIndex, z)
    ELSE tiles

\* updateTiles without the clear(): the old tiles stay
keep(tiles) == tiles

\* m_visibleTiles.clear()
clear(tiles) == {}

\* the (int) fmax(0, ...) of a mistaken fabs: a negative edge counts as positive
startIndexAbs(edge, tileSize) == Abs(edge) \div tileSize

\* (int) fmax(0, edge * invTileSize): the starting column or row
startIndex(edge, tileSize) == IF edge <= 0 THEN 0 ELSE edge \div tileSize

\* the bounds of the viewable area in map space: the edges of the rolled
\* viewport's bounding box
viewBounds(posx, posy, mwidth, mheight, roll) ==
    LET width == boundWidth(mwidth, mheight, roll)
        height == boundHeight(mwidth, mheight, roll)
        vpLeftEdge == posx - width \div 2 + HALF_CIRCUMFERENCE
        vpBottomEdge == (-posy) - height \div 2 + HALF_CIRCUMFERENCE
    IN  [left |-> vpLeftEdge, right |-> vpLeftEdge + width,
         bottom |-> vpBottomEdge, top |-> vpBottomEdge + height]

\* updateTiles: the new m_visibleTiles, from the old one and the state it reads
updateTiles(tiles, posx, posy, mwidth, mheight, zoom, roll) ==
    LET tileSize == tileSizeAt(zoom)
        vp == viewBounds(posx, posy, mwidth, mheight, roll)
    IN  columnWalk(clear(tiles), startIndex(vp.left, tileSize),
                   startIndex(vp.bottom, tileSize), vp.right, vp.top,
                   vp.bottom, tileSize, maxTileIndex(zoom), intZoom(zoom))

\* ---------------------------------------------------------------- actions

\* values an uninitialized float member may hold
Indeterminate == {0, Metre}

\* View::View(_width, _height, _projType): setMapProjection, setSize,
\* setZoom(m_initZoom), setPosition(0, 0), m_changed = false, m_dirty = true
View(width, height, projType) ==
    /\ m_projection = "MercatorProjection"
    /\ m_pixelScale = 1
    /\ m_vpWidth = width
    /\ m_vpHeight = height
    /\ m_aspect = aspectOf(width, height)
    /\ m_pos = [x |-> 0, y |-> 0, z |-> 0]
    /\ m_zoom = clamp(m_initZoom, 0, s_maxZoom)
    /\ m_roll = 0
    /\ m_isZoomIn = FALSE
    /\ m_width \in Indeterminate
    /\ m_height \in Indeterminate
    /\ m_view = mat4
    /\ m_proj = mat4
    /\ m_viewProj = mat4
    /\ m_visibleTiles = {}
    /\ m_dirty = TRUE
    /\ m_changed = FALSE
    /\ lastCall = Call("View", 0)

\* setMapProjection without m_dirty = true
setMapProjectionClean(projType) ==
    /\ m_projection' = "MercatorProjection"
    /\ lastCall' = Call("setMapProjection", projType)
    /\ UNCHANGED <<m_pixelScale, m_vpWidth, m_vpHeight, m_aspect, m_pos,
                   m_zoom, m_roll, m_isZoomIn, m_changed, m_dirty>>
    /\ UNCHANGED derived

\* a setMapProjection that installs nothing for an unrecognized kind
setMapProjectionStrict(projType) ==
    /\ m_projection' = IF projType = "mercator" THEN "MercatorProjection"
                       ELSE "nullptr"
    /\ m_dirty' = TRUE
    /\ lastCall' = Call("setMapProjection", projType)
    /\ UNCHANGED <<m_pixelScale, m_vpWidth, m_vpHeight, m_aspect, m_pos,
                   m_zoom, m_roll, m_isZoomIn, m_changed>>
    /\ UNCHANGED derived

setMapProjection(projType) ==
    /\ m_projection' = IF projType = "mercator" THEN "MercatorProjection"
                       ELSE "MercatorProjection"
    /\ m_dirty' = TRUE
    /\ lastCall' = Call("setMapProjection", projType)
    /\ UNCHANGED <<m_pixelScale, m_vpWidth, m_vpHeight, m_aspect, m_pos,
                   m_zoom, m_roll, m_isZoomIn, m_changed>>
    /\ UNCHANGED derived

\* setPixelScale without m_dirty = true
setPixelScaleClean(pixelsPerPoint) ==
    /\ m_pixelScale' = pixelsPerPoint
    /\ lastCall' = Call("setPixelScale", 0)
    /\ UNCHANGED <<m_projection, m_vpWidth, m_vpHeight, m_aspect, m_pos,
                   m_zoom, m_roll, m_isZoomIn, m_changed, m_dirty>>
    /\ UNCHANGED derived

setPixelScale(pixelsPerPoint) ==
    /\ m_pixelScale' = pixelsPerPoint
    /\ m_dirty' = TRUE
    /\ lastCall' = Call("setPixelScale", 0)
    /\ UNCHANGED <<m_projection, m_vpWidth, m_vpHeight, m_aspect, m_pos,
                   m_zoom, m_roll, m_isZoomIn, m_changed>>
    /\ UNCHANGED derived

\* a setSize that recomputes the world width at once
setSizeEager(width, height) ==
    /\ m_vpWidth' = width
    /\ m_vpHeight' = height
    /\ m_aspect' = aspectOf(width, height)
    /\ m_width' = (m_height * aspectOf(width, height)) \div AspectOne
    /\ m_dirty' = TRUE
    /\ lastCall' = Call("setSize", 0)
    /\ UNCHANGED <<m_projection, m_pixelScale, m_pos, m_zoom, m_roll,
                   m_isZoomIn, m_changed>>
    /\ UNCHANGED <<m_height, m_view, m_proj, m_viewProj, m_visibleTiles>>

setSize(width, height) ==
    /\ m_vpWidth' = width
    /\ m_vpHeight' = height
    /\ m_aspect' = aspectOf(width, height)
    /\ m_dirty' = TRUE
    /\ lastCall' = Call("setSize", 0)
    /\ UNCHANGED <<m_projection, m_pixelScale, m_pos, m_zoom, m_roll,
                   m_isZoomIn, m_changed>>
    /\ UNCHANGED derived

\* the body of setPosition, shared with translate
storePosition(x, y) ==
    /\ m_pos' = [m_pos EXCEPT !.x = x, !.y = y]
    /\ m_dirty' = TRUE
    /\ UNCHANGED <<m_projection, m_pixelScale, m_vpWidth, m_vpHeight,
                   m_aspect, m_zoom, m_roll, m_isZoomIn, m_changed>>
    /\ UNCHANGED derived

setPosition(x, y) ==
    /\ storePosition(x, y)
    /\ lastCall' = Call("setPosition", 0)

translate(dx, dy) ==
    /\ storePosition(m_pos.x + dx, m_pos.y + dy)
    /\ lastCall' = Call("translate", 0)

\* the body of setZoom, shared with zoom
storeZoom(z) ==
    /\ m_zoom' = clamp(z, 0, s_maxZoom)
    /\ m_dirty' = TRUE
    /\ UNCHANGED <<m_projection, m_pixelScale, m_vpWidth, m_vpHeight,
                   m_aspect, m_pos, m_roll, m_changed>>
    /\ UNCHANGED derived

setZoom(z) ==
    /\ storeZoom(z)
    /\ lastCall' = Call("setZoom", z)
    /\ UNCHANGED m_isZoomIn

\* a zoom that takes the hint from the change of the stored zoom
zoomByChange(dz) ==
    /\ m_isZoomIn' = (clamp(m_zoom + dz, 0, s_maxZoom) > m_zoom)
    /\ storeZoom(m_zoom + dz)
    /\ lastCall' = Call("zoom", m_zoom + dz)

zoom(dz) ==
    /\ m_isZoomIn' = (dz > 0)
    /\ storeZoom(m_zoom + dz)
    /\ lastCall' = Call("zoom", m_zoom + dz)

\* the body of setRoll, shared with roll
storeRoll(r) ==
    /\ m_roll' = mod(r, TWO_PI)
    /\ m_dirty' = TRUE
    /\ UNCHANGED <<m_projection, m_pixelScale, m_vpWidth, m_vpHeight,
                   m_aspect, m_pos, m_zoom, m_isZoomIn, m_changed>>
    /\ UNCHANGED derived

setRoll(r) ==
    /\ storeRoll(r)
    /\ lastCall' = Call("setRoll", r)

roll(droll) ==
    /\ storeRoll(RoundRoll(m_roll + droll))
    /\ lastCall' = Call("roll", RoundRoll(m_roll + droll))

\* an early return that leaves m_changed as it is
updateCleanKeeps ==
    /\ ~m_dirty
    /\ lastCall' = [Call("update", 0) EXCEPT !.again = (lastCall.op = "update")]
    /\ UNCHANGED <<m_dirty, m_changed, camera>>
    /\ UNCHANGED derived

\* update() on a clean view: the fast path
updateClean ==
    /\ ~m_dirty
    /\ m_changed' = FALSE
    /\ lastCall' = [Call("update", 0) EXCEPT !.again = (lastCall.op = "update")]
    /\ UNCHANGED <<m_dirty, camera>>
    /\ UNCHANGED derived

\* a recompute that runs updateTiles before updateMatrices: the tiles come
\* from the world extent of the last recompute
recomputeTilesFirst ==
    /\ LET m == updateMatrices(m_zoom, m_vpHeight, m_aspect, m_pixelScale,
                               m_roll)
       IN  /\ m_height' = m.height
           /\ m_width' = m.width
           /\ m_pos' = [m_pos EXCEPT !.z = m.z]
           /\ m_view' = m.view
           /\ m_proj' = m.proj
           /\ m_viewProj' = m.viewProj
           /\ m_visibleTiles' = updateTiles(m_visibleTiles, m_pos.x, m_pos.y,
                                            m_width, m_height, m_zoom, m_roll)
    /\ m_dirty' = FALSE
    /\ m_changed' = TRUE
    /\ lastCall' = [Call("update", 0) EXCEPT
                        !.recomputed = TRUE, !.again = (lastCall.op = "update"),
                        !.same = (<<m_view, m_proj, m_viewProj, m_visibleTiles>>'
                                  = <<m_view, m_proj, m_viewProj, m_visibleTiles>>)]
    /\ UNCHANGED <<m_projection, m_pixelScale, m_vpWidth, m_vpHeight,
                   m_aspect, m_zoom, m_roll, m_isZoomIn>>

\* the recompute of update(): updateMatrices, then updateTiles on its results,
\* m_dirty = false, m_changed = true
recompute ==
    /\ LET m == updateMatrices(m_zoom, m_vpHeight, m_aspect, m_pixelScale,
                               m_roll)
       IN  /\ m_height' = m.height
           /\ m_width' = m.width
           /\ m_pos' = [m_pos EXCEPT !.z = m.z]
           /\ m_view' = m.view
           /\ m_proj' = m.proj
           /\ m_viewProj' = m.viewProj
           /\ m_visibleTiles' = updateTiles(m_visibleTiles, m_pos.x, m_pos.y,
                                            m.width, m.height, m_zoom, m_roll)
    /\ m_dirty' = FALSE
    /\ m_changed' = TRUE
    /\ lastCall' = [Call("update", 0) EXCEPT
                        !.recomputed = TRUE, !.again = (lastCall.op = "update"),
                        !.same = (<<m_view, m_proj, m_viewProj, m_visibleTiles>>'
                                  = <<m_view, m_proj, m_viewProj, m_visibleTiles>>)]
    /\ UNCHANGED <<m_projection, m_pixelScale, m_vpWidth, m_vpHeight,
                   m_aspect, m_zoom, m_roll, m_isZoomIn>>

\* update() on a dirty view
updateDirty == m_dirty /\ recompute

\* update() without the early return: it recomputes every time
updateUnguarded == recompute

update == updateClean \/ updateDirty

\* getBoundsRect(): position - half extents, position + half extents
getBoundsRect ==
    LET hw == m_width \div 2
        hh == m_height \div 2
    IN  <<m_pos.x - hw, m_pos.y - hh, m_pos.x + hw, m_pos.y + hh>>

\* View::View on a second object: the state View describes, as a step
construct(width, height, projType) ==
    /\ m_projection' = "MercatorProjection"
    /\ m_pixelScale' = 1
    /\ m_vpWidth' = width
    /\ m_vpHeight' = height
    /\ m_aspect' = aspectOf(width, height)
    /\ m_pos' = [x |-> 0, y |-> 0, z |-> 0]
    /\ m_zoom' = clamp(m_initZoom, 0, s_maxZoom)
    /\ m_roll' = 0
    /\ m_isZoomIn' = FALSE
    /\ m_width' \in Indeterminate
    /\ m_height' \in Indeterminate
    /\ m_view' = mat4
    /\ m_proj' = mat4
    /\ m_viewProj' = mat4
    /\ m_visibleTiles' = {}
    /\ m_dirty' = TRUE
    /\ m_changed' = FALSE
    /\ lastCall' = Call("View", 0)

\* ------------------------------------------------------------------ Label

\* 1.0 as a clip-space or normalized device coordinate
NdcOne == 4

\* a float infinity
Infinity == Pow2(14)

\* a screen length of p pixels, in the ticks screen positions are counted in:
\* 2 * NdcOne to the pixel, so that (ndc + 1) * halfWidth is exact
Pixels(p) == p * 2 * NdcOne

\* the float quotient a / b: to the nearest tick, an infinity for b = 0
Quotient(a, b) ==
    IF b = 0 THEN (IF a < 0 THEN -Infinity ELSE Infinity)
    ELSE LET n == IF b < 0 THEN -a ELSE a
             d == Abs(b)
         IN  (2 * n * NdcOne + d) \div (2 * d)

\* row r of the mat4 m times the vec4 v
Row(m, r, v) ==
    m[r][1] * v[1] + m[r][2] * v[2] + m[r][3] * v[3] + m[r][4] * v[4]

\* screenPosition = _mvp * vec4(m_modelPosition, 0.0f, 1.0f)
clipPosition(mvp, pos) ==
    LET v == <<pos[1], pos[2], 0, NdcOne>>
    IN  [x |-> Row(mvp, 1, v), y |-> Row(mvp, 2, v), z |-> Row(mvp, 3, v),
         w |-> Row(mvp, 4, v)]

\* the perspective division, then from normalized device coordinates to the
\* screen: x = (x + 1) * halfWidth, y = (1 - y) * halfHeight
screenPosition(mvp, pos, screenSize) ==
    LET c == clipPosition(mvp, pos)
        halfWidth == screenSize[1] \div 2
        halfHeight == screenSize[2] \div 2
    IN  [x |-> ((Quotient(c.x, c.w) + NdcOne) * halfWidth) \div NdcOne,
         y |-> ((NdcOne - Quotient(c.y, c.w)) * halfHeight) \div NdcOne]

\* a culling test that also hides a label on the screen's edge
offScreenStrict(p, size) == p >= size \/ p <= 0

\* screenPosition.x > _screenSize.x || screenPosition.x < 0
offScreen(p, size) == p > size \/ p < 0

\* Label::Label: the label holds its transform; the buffer has given it an id
\* and holds no transform for that id yet
Label(transform) ==
    /\ m_transform = transform
    /\ m_buffer = [set |-> FALSE, x |-> 0, y |-> 0, rotation |-> 0, alpha |-> 0]

\* Label::updateTransform(_transform, _mvp, _screenSize); 0 / 0 is left out
updateTransform(transform, mvp, screenSize) ==
    LET c == clipPosition(mvp, transform.m_modelPosition)
        sp == screenPosition(mvp, transform.m_modelPosition, screenSize)
        alpha0 == transform.m_alpha
        alpha1 == IF offScreen(sp.x, screenSize[1]) THEN 0 ELSE alpha0
        alpha2 == IF offScreen(sp.y, screenSize[2]) THEN 0 ELSE alpha1
    IN  /\ ~(c.w = 0 /\ (c.x = 0 \/ c.y = 0))
        /\ m_transform' = transform
        /\ m_buffer' = [set |-> TRUE, x |-> sp.x, y |-> sp.y,
                        rotation |-> transform.m_rotation, alpha |-> alpha2]
        /\ lastCall' = Call("updateTransform", screenSize)

\* ------------------------------------------------- main.cpp: input handling

\* const double double_tap_time = 0.5 seconds, in clock ticks of 0.25 s
double_tap_time == 2

\* an event's record: the event, the gesture handler its callback invoked,
\* whether the cursor has moved with button 1 down since button 1 was last
\* pressed, whether a release has been delivered as a tap or double tap, and
\* the time of the last such release
Event(ev, gesture, moved, tapped, tapTime) ==
    [ev |-> ev, gesture |-> gesture, moved |-> moved, tapped |-> tapped,
     tapTime |-> tapTime]

\* the globals as initialized, GLFW as it starts: no button down, time 0
main ==
    /\ was_panning = FALSE
    /\ last_mouse_up = -double_tap_time
    /\ last_x_down = 0
    /\ last_y_down = 0
    /\ button1 = "GLFW_RELEASE"
    /\ cursor = <<0, 0>>
    /\ clock = 0
    /\ lastEvent = Event("main", "none", FALSE, FALSE, 0)

\* a double-tap test that counts a release exactly double_tap_time later
isDoubleTapInclusive(time) == time - last_mouse_up <= double_tap_time

\* time - last_mouse_up < double_tap_time
isDoubleTap(time) == time - last_mouse_up < double_tap_time

\* mouse_button_callback for a button other than GLFW_MOUSE_BUTTON_1
mouse_button_callback_other ==
    /\ lastEvent' = [lastEvent EXCEPT !.ev = "other", !.gesture = "none"]
    /\ UNCHANGED <<was_panning, last_mouse_up, last_x_down, last_y_down,
                   button1, cursor, clock>>

\* mouse_button_callback(window, GLFW_MOUSE_BUTTON_1, action, mods), called by
\* GLFW when button 1 changes to action
mouse_button_callback(action) ==
    /\ button1 # action
    /\ button1' = action
    /\ IF was_panning
       THEN /\ was_panning' = FALSE
            /\ lastEvent' = [lastEvent EXCEPT !.ev = action, !.gesture = "none"]
            /\ UNCHANGED <<last_mouse_up, last_x_down, last_y_down>>
       ELSE IF action = "GLFW_PRESS"
       THEN /\ last_x_down' = cursor[1]
            /\ last_y_down' = cursor[2]
            /\ lastEvent' = [lastEvent EXCEPT !.ev = action, !.gesture = "none",
                                              !.moved = FALSE]
            /\ UNCHANGED <<was_panning, last_mouse_up>>
       ELSE /\ last_mouse_up' = clock
            /\ lastEvent' =
                   Event(action,
                         IF isDoubleTap(clock) THEN "handleDoubleTapGesture"
                         ELSE "handleTapGesture",
                         lastEvent.moved, TRUE, clock)
            /\ UNCHANGED <<was_panning, last_x_down, last_y_down>>
    /\ UNCHANGED <<cursor, clock>>

\* a cursor_pos_callback that does not mark the drag
cursor_pos_callback_unmarked(x, y) ==
    /\ cursor # <<x, y>>
    /\ cursor' = <<x, y>>
    /\ lastEvent' = [lastEvent EXCEPT !.ev = "cursor", !.gesture = "none",
                         !.moved = @ \/ button1 = "GLFW_PRESS"]
    /\ UNCHANGED <<was_panning, last_x_down, last_y_down, last_mouse_up,
                   button1, clock>>

\* cursor_pos_callback(window, x, y), called by GLFW when the cursor moves
cursor_pos_callback(x, y) ==
    /\ cursor # <<x, y>>
    /\ cursor' = <<x, y>>
    /\ IF button1 = "GLFW_PRESS"
       THEN /\ was_panning' = TRUE
            /\ last_x_down' = x
            /\ last_y_down' = y
            /\ lastEvent' =
                   [lastEvent EXCEPT !.ev = "cursor", !.moved = TRUE,
                       !.gesture = IF was_panning THEN "handlePanGesture"
                                   ELSE "none"]
       ELSE /\ lastEvent' = [lastEvent EXCEPT !.ev = "cursor",
                                              !.gesture = "none"]
            /\ UNCHANGED <<was_panning, last_x_down, last_y_down>>
    /\ UNCHANGED <<last_mouse_up, button1, clock>>

\* glfwGetTime() advances between events
glfwGetTime ==
    /\ clock' = clock + 1
    /\ lastEvent' = [lastEvent EXCEPT !.ev = "time", !.gesture = "none"]
    /\ UNCHANGED <<was_panning, last_mouse_up, last_x_down, last_y_down,
                   button1, cursor>>

\* ----------------------------------------------------------------- inputs

\* the positions reach MaxPosTiles tiles of the deepest level from the centre
MaxPosTiles == 4

\* the size of a tile of the deepest level
MinTile == tileSizeAt(s_maxZoom)

ProjArgs == {"mercator", "unknown"}

ScaleArgs == {1, 2}

SizeArgs == {<<800, 600>>, <<512, 512>>}

PosArgs == {<<0, 0>>, <<HALF_CIRCUMFERENCE, HALF_CIRCUMFERENCE>>}

TranslateArgs == {<<HALF_CIRCUMFERENCE, HALF_CIRCUMFERENCE>>}

ZoomArgs == {-ZoomOne, 5, s_maxZoom + ZoomOne}

DzArgs == {-s_maxZoom, 0, s_maxZoom}

RollArgs == {0, 3 * RollStep}

DrollArgs == {-1}

InRange(x, y) ==
    /\ Abs(x) <= MaxPosTiles * MinTile
    /\ Abs(y) <= MaxPosTiles * MinTile

\* no second View
TwinIdle == script = <<>> /\ replay = 0

\* a label at the origin, not yet transformed
LabelIdle ==
    Label([m_modelPosition |-> <<0, 0>>, m_alpha |-> 100, m_rotation |-> 0])

\* a step of the View alone
ViewOnly == UNCHANGED <<twinVars, labelVars, inputVars>>

Init ==
    /\ \E s \in {<<800, 600>>} : View(s[1], s[2], "mercator")
    /\ TwinIdle /\ LabelIdle /\ main

Next ==
    \/ \E p \in ProjArgs : setMapProjection(p) /\ ViewOnly
    \/ \E s \in ScaleArgs : setPixelScale(s) /\ ViewOnly
    \/ \E s \in SizeArgs : setSize(s[1], s[2]) /\ ViewOnly
    \/ \E p \in PosArgs : setPosition(p[1], p[2]) /\ ViewOnly
    \/ \E d \in TranslateArgs :
          /\ InRange(m_pos.x + d[1], m_pos.y + d[2])
          /\ translate(d[1], d[2]) /\ ViewOnly
    \/ \E z \in ZoomArgs : setZoom(z) /\ ViewOnly
    \/ \E dz \in DzArgs : zoom(dz) /\ ViewOnly
    \/ \E r \in RollArgs : setRoll(r) /\ ViewOnly
    \/ \E dr \in DrollArgs : roll(dr) /\ ViewOnly
    \/ update /\ ViewOnly

Spec == Init /\ [][Next]_vars


\* ------------------------------------- the zoom and roll setters on their own

\* the zoom arguments reach ZoomMargin half levels beyond both ends of the range
ZoomMargin == 3

\* the roll arguments reach MaxTurns full turns in both directions
MaxTurns == 1

ZoomValues == (-ZoomMargin) .. (s_maxZoom + ZoomMargin)

DzValues == {-(s_maxZoom + ZoomMargin), -1, 0, 1, s_maxZoom + ZoomMargin}

\* eighths of a turn, and an angle below the float spacing at TWO_PI on either
\* side of zero
RollValues ==
    {k * 3 * RollStep : k \in (-8 * MaxTurns) .. (8 * MaxTurns)} \cup {-1, 1}

DrollValues == {-TWO_PI, -3 * RollStep, -1, 1, 3 * RollStep}

NextSetters ==
    \/ \E z \in ZoomValues : setZoom(z) /\ ViewOnly
    \/ \E dz \in DzValues : zoom(dz) /\ ViewOnly
    \/ \E r \in RollValues : setRoll(r) /\ ViewOnly
    \/ \E dr \in DrollValues : roll(dr) /\ ViewOnly

SpecSetters == Init /\ [][NextSetters]_vars

\* ------------------------------------------ update() over the camera states

\* the rolls of the sweep: 0, 15, ... degrees
MaxRollSteps == 3

PosGrid == {k * MinTile : k \in (-MaxPosTiles) .. MaxPosTiles}

RollGrid == {k * RollStep : k \in 0 .. MaxRollSteps}

SizeGrid == {<<800, 600>>, <<600, 800>>, <<512, 512>>, <<1024, 256>>}

\* a view as constructed and then set, by its setters, to a camera state
InitTiles ==
    \E s \in SizeGrid, x \in PosGrid, y \in PosGrid, z \in 0 .. s_maxZoom,
       r \in RollGrid, p \in ScaleArgs :
        /\ m_projection = "MercatorProjection"
        /\ m_pixelScale = p
        /\ m_vpWidth = s[1]
        /\ m_vpHeight = s[2]
        /\ m_aspect = aspectOf(s[1], s[2])
        /\ m_pos = [x |-> x, y |-> y, z |-> 0]
        /\ m_zoom = z
        /\ m_roll = r
        /\ m_isZoomIn = FALSE
        /\ m_width = 0
        /\ m_height = 0
        /\ m_view = mat4
        /\ m_proj = mat4
        /\ m_viewProj = mat4
        /\ m_visibleTiles = {}
        /\ m_dirty = TRUE
        /\ m_changed = FALSE
        /\ lastCall = Call("setPosition", 0)
        /\ TwinIdle /\ LabelIdle /\ main

NextTiles == update /\ ViewOnly

SpecTiles == InitTiles /\ [][NextTiles]_vars


\* ------------------------------------------- updateTransform over its inputs

\* the model positions reach MaxCoord half units from the origin on both axes
MaxCoord == 3

PositionArgs ==
    {<<x * (NdcOne \div 2), y * (NdcOne \div 2)>> :
        x \in (-MaxCoord) .. MaxCoord, y \in (-MaxCoord) .. MaxCoord}

TransformArgs ==
    {[m_modelPosition |-> p, m_alpha |-> a, m_rotation |-> 0] :
        p \in PositionArgs, a \in {0, 50, 100}}

\* the identity; w = 2; a shift to the right by one unit; a perspective with
\* w = y + 1, which is 0 or negative for points at or below y = -1
MvpArgs ==
    {<<<<1, 0, 0, 0>>, <<0, 1, 0, 0>>, <<0, 0, 1, 0>>, <<0, 0, 0, 1>>>>,
     <<<<1, 0, 0, 0>>, <<0, 1, 0, 0>>, <<0, 0, 1, 0>>, <<0, 0, 0, 2>>>>,
     <<<<1, 0, 0, 1>>, <<0, 1, 0, 0>>, <<0, 0, 1, 0>>, <<0, 0, 0, 1>>>>,
     <<<<1, 0, 0, 0>>, <<0, 1, 0, 0>>, <<0, 0, 1, 0>>, <<0, 1, 0, 1>>>>}

ScreenArgs == {<<Pixels(800), Pixels(600)>>, <<Pixels(3), Pixels(5)>>}

InitLabel ==
    /\ View(800, 600, "mercator")
    /\ m_width = 0 /\ m_height = 0
    /\ TwinIdle /\ main
    /\ \E t \in TransformArgs : Label(t)

\* a frame: the label keeps its place on the map; its alpha, the matrix and
\* the screen size are those of the frame
NextLabel ==
    \E a \in {0, 50, 100}, m \in MvpArgs, sz \in ScreenArgs :
        /\ updateTransform([m_transform EXCEPT !.m_alpha = a], m, sz)
        /\ UNCHANGED <<camera, derived, m_dirty, m_changed, twinVars, inputVars>>

SpecLabel == InitLabel /\ [][NextLabel]_vars

\* ------------------------------------------------ the mouse events of a run

\* the clock reaches MaxClock ticks
MaxClock == 6

CursorArgs == {<<0, 0>>, <<1, 0>>, <<1, 1>>}

InputOnly == UNCHANGED <<viewVars, twinVars, labelVars>>

InitInput ==
    /\ View(800, 600, "mercator")
    /\ TwinIdle /\ LabelIdle /\ main

NextInput ==
    \/ \E a \in {"GLFW_PRESS", "GLFW_RELEASE"} :
          mouse_button_callback(a) /\ InputOnly
    \/ mouse_button_callback_other /\ InputOnly
    \/ \E c \in CursorArgs : cursor_pos_callback(c[1], c[2]) /\ InputOnly
    \/ clock < MaxClock /\ glfwGetTime /\ InputOnly

SpecInput == InitInput /\ [][NextInput]_vars

\* ----------------------------------------- two Views fed the same calls

\* the calls of a script
MaxCalls == 3

\* what a caller can observe of a View and the claims compare: the camera
\* state, the flags, the matrices and the tiles
Obs ==
    [projection |-> m_projection, pixelScale |-> m_pixelScale,
     vpWidth |-> m_vpWidth, vpHeight |-> m_vpHeight, aspect |-> m_aspect,
     pos |-> m_pos, zoom |-> m_zoom, roll |-> m_roll, isZoomIn |-> m_isZoomIn,
     dirty |-> m_dirty, changed |-> m_changed, view |-> m_view,
     proj |-> m_proj, viewProj |-> m_viewProj, tiles |-> m_visibleTiles]

CallArg(op, a, b) == [op |-> op, a |-> a, b |-> b]

ScriptCalls ==
    {CallArg("setMapProjection", 1, 0), CallArg("setPixelScale", 2, 0),
     CallArg("setSize", 512, 512),
     CallArg("setPosition", HALF_CIRCUMFERENCE, HALF_CIRCUMFERENCE),
     CallArg("translate", -MinTile, MinTile), CallArg("setZoom", 5, 0),
     CallArg("zoom", -ZoomOne, 0), CallArg("setRoll", 3 * RollStep, 0),
     CallArg("roll", -1, 0), CallArg("update", 0, 0)}

\* the call c made on the View
Do(c) ==
    CASE c.op = "setMapProjection" ->
           setMapProjection(IF c.a = 0 THEN "mercator" ELSE "unknown")
      [] c.op = "setPixelScale" -> setPixelScale(c.a)
      [] c.op = "setSize" -> setSize(c.a, c.b)
      [] c.op = "setPosition" -> setPosition(c.a, c.b)
      [] c.op = "translate" -> translate(c.a, c.b)
      [] c.op = "setZoom" -> setZoom(c.a)
      [] c.op = "zoom" -> zoom(c.a)
      [] c.op = "setRoll" -> setRoll(c.a)
      [] c.op = "roll" -> roll(c.a)
      [] c.op = "update" -> update

TwinOnly == UNCHANGED <<labelVars, inputVars>>

InitTwin ==
    /\ View(800, 600, "mercator")
    /\ script = <<[call |-> CallArg("View", 800, 600), obs |-> Obs]>>
    /\ replay = 0
    /\ LabelIdle /\ main

\* a call on the first View, written to the script with what it left
Record ==
    /\ replay = 0 /\ Len(script) <= MaxCalls
    /\ \E c \in ScriptCalls :
          /\ Do(c)
          /\ script' = Append(script, [call |-> c, obs |-> Obs'])
    /\ UNCHANGED replay

\* the second View is constructed, with the parameters of the first
Restart ==
    /\ replay = 0 /\ Len(script) = MaxCalls + 1
    /\ construct(script[1].call.a, script[1].call.b, "mercator")
    /\ replay' = 1
    /\ UNCHANGED script

\* the next call of the script on the second View
Replay ==
    /\ replay >= 1 /\ replay < Len(script)
    /\ Do(script[replay + 1].call)
    /\ replay' = replay + 1
    /\ UNCHANGED script

NextTwin ==
    \/ Record /\ TwinOnly
    \/ Restart /\ TwinOnly
    \/ Replay /\ TwinOnly

SpecTwin == InitTwin /\ [][NextTwin]_vars

\* ----------------------------------------------------------------- claims

\* the view has been recomputed and not been touched since
Clean == ~m_dirty

\* the tiles updateTiles produces from the current state, from an empty set
FreshTiles ==
    updateTiles({}, m_pos.x, m_pos.y, m_width, m_height, m_zoom, m_roll)

\* the number of tiles across the map at the tile level: 2^floor(zoom)
GridSize == Pow2(intZoom(m_zoom))

\* C1: after update(), every visible tile (x, y, z) has 0 <= x < 2^floor(zoom)
\* and 0 <= y < 2^floor(zoom), whatever the camera state.
C1_TilesInGrid ==
    Clean => \A t \in m_visibleTiles :
                 /\ 0 <= t.x /\ t.x < GridSize
                 /\ 0 <= t.y /\ t.y < GridSize

\* the unrolled viewport rectangle in map space, from the camera state
ViewRect ==
    LET m == updateMatrices(m_zoom, m_vpHeight, m_aspect, m_pixelScale, m_roll)
        left == m_pos.x - m.width \div 2 + HALF_CIRCUMFERENCE
        bottom == (-m_pos.y) - m.height \div 2 + HALF_CIRCUMFERENCE
    IN  [left |-> left, right |-> left + m.width,
         bottom |-> bottom, top |-> bottom + m.height]

\* the tiles of the grid whose footprint overlaps [left, right) x [bottom, top)
OverlappingTiles ==
    LET ts == tileSizeAt(m_zoom)
        r == ViewRect
        Hit(i, lo, hi) == i * ts < hi /\ (i + 1) * ts > lo
    IN  {TileID(x, y, intZoom(m_zoom)) :
           x \in {i \in 0 .. (GridSize - 1) : Hit(i, r.left, r.right)},
           y \in {i \in 0 .. (GridSize - 1) : Hit(i, r.bottom, r.top)}}

\* C2: with roll = 0, after update() the visible tiles are exactly the tiles of
\* the grid that overlap the viewport rectangle.
C2_TilesExact ==
    (Clean /\ m_roll = 0) => m_visibleTiles = OverlappingTiles


\* C3: after any sequence of setZoom and zoom calls the stored zoom is within
\* [0, s_maxZoom], and setZoom(z) with z in that range stores exactly z.
C3_ZoomClamped ==
    /\ 0 <= m_zoom /\ m_zoom <= s_maxZoom
    /\ (lastCall.op = "setZoom" /\ 0 <= lastCall.req /\ lastCall.req <= s_maxZoom)
          => m_zoom = lastCall.req

\* a zoom(dz) call has asked for a zoom below 0, from a fractional zoom that a
\* setZoom had stored, and 0 was stored
C3_Witness ==
    /\ lastCall.op = "zoom" /\ lastCall.req < 0 /\ lastCall.req % ZoomOne # 0
    /\ m_zoom = 0

\* C4: after any sequence of setRoll and roll calls the stored roll is within
\* [0, 2 pi) and congruent to the requested angle modulo 2 pi.
C4_RollWrapped ==
    /\ 0 <= m_roll /\ m_roll < TWO_PI
    /\ lastCall.op \in {"setRoll", "roll"}
          => (m_roll - lastCall.req) % TWO_PI = 0


\* the state update() derives, besides the flags
Derived == <<m_width, m_height, m_pos.z, m_view, m_proj, m_viewProj,
             m_visibleTiles>>

\* C5: an update() that directly follows an update() recomputes nothing: it
\* leaves the matrices, the world extent, the camera distance and the tiles
\* unchanged, leaves m_dirty false and sets m_changed to false.
C5_SecondUpdateIsNoOp ==
    [][(lastCall.op = "update" /\ lastCall'.op = "update" /\ lastCall'.again)
          => /\ Derived' = Derived
             /\ camera' = camera
             /\ ~lastCall'.recomputed
             /\ ~m_dirty'
             /\ ~m_changed']_vars

\* a second update() has run on a view whose first update() recomputed
C5_Witness ==
    /\ lastCall.op = "update" /\ lastCall.again /\ ~lastCall.recomputed
    /\ ~m_changed /\ ~m_dirty
    /\ m_visibleTiles # {}

\* C6: while m_dirty is false, the world extent, the camera distance, the
\* matrices and the tiles are those derived from the current camera state.
C6_CleanIsConsistent ==
    Clean =>
        LET m == updateMatrices(m_zoom, m_vpHeight, m_aspect, m_pixelScale,
                                m_roll)
        IN  /\ m_width = m.width /\ m_height = m.height
            /\ m_pos.z = m.z
            /\ m_view = m.view /\ m_proj = m.proj /\ m_viewProj = m.viewProj
            /\ m_visibleTiles =
                   updateTiles({}, m_pos.x, m_pos.y, m.width, m.height,
                               m_zoom, m_roll)

\* an update() has recomputed a view that several mutators had changed: zoom,
\* pixel scale, size and position all differ from the constructed ones
C6_Witness ==
    /\ Clean /\ lastCall.recomputed
    /\ m_zoom # s_maxZoom /\ m_pixelScale # 1 /\ m_vpWidth # 800
    /\ m_pos.x # 0

Mutators == {"setMapProjection", "setPixelScale", "setSize", "setPosition",
             "setZoom", "setRoll", "translate", "zoom", "roll"}

\* C7: m_dirty is true after construction and after every mutator call, so it
\* is false only after a call to update().
C7_DirtyUnlessUpdated ==
    /\ lastCall.op \in Mutators \cup {"View"} => m_dirty
    /\ ~m_dirty => lastCall.op = "update"

\* a mutator that stores the value already stored (setMapProjection always
\* does) has run on a recomputed view
C7_Witness ==
    /\ lastCall.op = "setMapProjection" /\ m_dirty
    /\ m_visibleTiles # {}

\* what each mutator may change of the camera state
Frame(op) ==
    CASE op = "setMapProjection" ->
           UNCHANGED <<m_pixelScale, m_vpWidth, m_vpHeight, m_aspect, m_pos,
                       m_zoom, m_roll, m_isZoomIn>>
      [] op = "setPixelScale" ->
           UNCHANGED <<m_projection, m_vpWidth, m_vpHeight, m_aspect, m_pos,
                       m_zoom, m_roll, m_isZoomIn>>
      [] op = "setSize" ->
           UNCHANGED <<m_projection, m_pixelScale, m_pos, m_zoom, m_roll,
                       m_isZoomIn>>
      [] op \in {"setPosition", "translate"} ->
           /\ m_pos'.z = m_pos.z
           /\ UNCHANGED <<m_projection, m_pixelScale, m_vpWidth, m_vpHeight,
                          m_aspect, m_zoom, m_roll, m_isZoomIn>>
      [] op = "setZoom" ->
           UNCHANGED <<m_projection, m_pixelScale, m_vpWidth, m_vpHeight,
                       m_aspect, m_pos, m_roll, m_isZoomIn>>
      [] op = "zoom" ->
           UNCHANGED <<m_projection, m_pixelScale, m_vpWidth, m_vpHeight,
                       m_aspect, m_pos, m_roll>>
      [] op \in {"setRoll", "roll"} ->
           UNCHANGED <<m_projection, m_pixelScale, m_vpWidth, m_vpHeight,
                       m_aspect, m_pos, m_zoom, m_isZoomIn>>

\* C8: no mutator recomputes: each leaves the matrices, the world extent, the
\* tiles and m_changed unchanged, and changes no camera field but its own.
C8_MutatorsDeferRecompute ==
    [][lastCall'.op \in Mutators
          => /\ UNCHANGED <<m_width, m_height, m_view, m_proj, m_viewProj,
                            m_visibleTiles, m_changed>>
             /\ Frame(lastCall'.op)]_vars

\* a mutator has changed the camera of a recomputed view, which still holds the
\* tiles of the old zoom
C8_Witness ==
    /\ lastCall.op = "zoom" /\ m_dirty /\ m_changed
    /\ m_visibleTiles # {}
    /\ \E t \in m_visibleTiles : t.z # intZoom(m_zoom)

\* C9: a recompute replaces the tiles: afterwards every tile is one produced
\* from the current camera state and carries the level floor(zoom).
C9_TilesReplaced ==
    Clean => /\ m_visibleTiles \subseteq FreshTiles
             /\ \A t \in m_visibleTiles : t.z = intZoom(m_zoom)

\* a recompute at a fractional zoom has produced tiles
C9_Witness ==
    /\ Clean /\ lastCall.recomputed
    /\ m_zoom % ZoomOne # 0
    /\ m_visibleTiles # {}


\* the number of tiles update() computes for the current state rolled by r
TileCount(r) ==
    Cardinality(updateTiles({}, m_pos.x, m_pos.y, m_width, m_height, m_zoom, r))

\* the rolls of the sweep in [0, pi/4]
EighthTurn == {r \in RollGrid : r <= 3 * RollStep}

\* C10 as stated: for rolls r1 <= r2 in [0, pi/4] the tile count at r1 is at
\* most the tile count at r2.
C10_RollMonotone ==
    (Clean /\ m_roll \in EighthTurn) =>
        \A r1 \in EighthTurn :
            r1 <= m_roll => TileCount(r1) <= Cardinality(m_visibleTiles)

\* the bounding box update() computes for the current state rolled by r
BoxAt(r) == viewBounds(m_pos.x, m_pos.y, m_width, m_height, r)

\* box a contains box b
Contains(a, b) ==
    /\ a.left <= b.left /\ b.right <= a.right
    /\ a.bottom <= b.bottom /\ b.top <= a.top

\* C10 amended: for rolls r1 <= r2 in [0, pi/4] the tile count at r1 is at
\* most the tile count at r2 whenever the bounding box computed at r2 contains
\* the one computed at r1.
C10_RollMonotoneWhileBoxGrows ==
    (Clean /\ m_roll \in EighthTurn) =>
        \A r1 \in EighthTurn :
            (r1 <= m_roll /\ Contains(BoxAt(m_roll), BoxAt(r1)))
                => TileCount(r1) <= Cardinality(m_visibleTiles)

\* a rolled view that is not square, whose box contains the unrolled one and
\* reaches beyond the map's left edge, holds more tiles than it would unrolled
C10_Witness ==
    /\ Clean /\ m_roll \in EighthTurn /\ m_roll > 0
    /\ m_vpWidth # m_vpHeight
    /\ Contains(BoxAt(m_roll), BoxAt(0))
    /\ BoxAt(m_roll).left < 0
    /\ TileCount(0) < Cardinality(m_visibleTiles)


\* C11: when updateTransform has run, the alpha it hands to the buffer is 0 if
\* the projected screen position is outside [0, width] x [0, height] and the
\* label's own alpha if it is inside or exactly on an edge.
C11_CullingInclusive ==
    m_buffer.set =>
        LET size == lastCall.req
            inside == /\ 0 <= m_buffer.x /\ m_buffer.x <= size[1]
                      /\ 0 <= m_buffer.y /\ m_buffer.y <= size[2]
        IN  m_buffer.alpha = IF inside THEN m_transform.m_alpha ELSE 0

\* a visible label has been projected exactly onto a screen edge or corner
C11_Witness ==
    /\ m_buffer.set /\ m_buffer.alpha > 0
    /\ m_buffer.x = lastCall.req[1]
    /\ m_buffer.y \in {0, lastCall.req[2]}

\* C12: a second View, constructed with the parameters of the first and fed
\* the same calls, shows after every call the camera state, flags, matrices
\* and tiles the first View showed after that call.
C12_TwinsAgree ==
    replay >= 1 => Obs = script[replay].obs

\* the second View has repeated a whole script in which an update() that
\* produced tiles was followed by a mutator
C12_Witness ==
    /\ replay >= 3 /\ replay = Len(script)
    /\ \E i \in 2 .. (Len(script) - 1) :
          /\ script[i].call.op = "update" /\ script[i].obs.tiles # {}
          /\ script[i + 1].call.op # "update"

\* C13: a projection is installed after construction and after every call;
\* setMapProjection installs the mercator projection for every kind, sets
\* m_dirty and leaves position, zoom, roll and screen size unchanged.
C13_ProjectionFallback ==
    /\ m_projection = "MercatorProjection"
    /\ [][/\ m_projection' = "MercatorProjection"
          /\ lastCall'.op = "setMapProjection"
                => /\ m_dirty'
                   /\ UNCHANGED <<m_pos, m_zoom, m_roll, m_vpWidth,
                                  m_vpHeight>>]_vars

\* setMapProjection has been called with an unrecognized kind on a view that
\* had been recomputed
C13_Witness ==
    /\ lastCall.op = "setMapProjection" /\ lastCall.req = "unknown"
    /\ m_projection = "MercatorProjection" /\ m_dirty
    /\ m_visibleTiles # {}

\* C14: update() leaves m_changed equal to the m_dirty it found, which is true
\* iff the preceding call was the constructor or a mutator; it leaves m_dirty
\* false; and when it found the view dirty, the tiles it leaves are computed
\* from the world extent its updateMatrices has just computed.
C14_ChangedIffDirty ==
    [][lastCall'.op = "update"
          => /\ m_changed' = m_dirty
             /\ ~m_dirty'
             /\ m_dirty = (lastCall.op # "update")
             /\ m_dirty =>
                   LET m == updateMatrices(m_zoom, m_vpHeight, m_aspect,
                                           m_pixelScale, m_roll)
                   IN  /\ m_width' = m.width /\ m_height' = m.height
                       /\ m_view' = m.view /\ m_proj' = m.proj
                       /\ m_visibleTiles' =
                              updateTiles({}, m_pos.x, m_pos.y, m.width,
                                          m.height, m_zoom, m_roll)]_vars

\* a first update() after a roll has recomputed
C14_Witness ==
    /\ lastCall.op = "update" /\ ~lastCall.again /\ lastCall.recomputed
    /\ m_changed /\ ~m_dirty
    /\ m_roll # 0

\* the matrices and the tiles
Outputs == <<m_view, m_proj, m_viewProj, m_visibleTiles>>

\* C15 as stated: whenever an update() leaves the matrices and the tiles equal
\* to those before it, m_changed is false after it.
C15_ChangedOnlyIfDifferent ==
    [][(lastCall'.op = "update" /\ Outputs' = Outputs) => ~m_changed']_vars

\* C15 amended: m_changed records whether update() recomputed, not whether
\* the recompute changed anything: an update() that leaves the matrices and
\* the tiles equal to those before it leaves m_changed true if it found the
\* view dirty and false if it found it clean.
C15_ChangedIffRecomputed ==
    [][(lastCall'.op = "update" /\ Outputs' = Outputs)
          => m_changed' = m_dirty]_vars

\* an update() has recomputed matrices and tiles equal to those before it
C15_Witness ==
    /\ lastCall.op = "update" /\ lastCall.recomputed /\ lastCall.same
    /\ m_changed
    /\ m_visibleTiles # {}

\* C16: after update() the tiles are a full grid: all (x, y, floor(zoom)) with
\* x in a range of columns and y in a range of rows.
C16_TilesRectangular ==
    (Clean /\ m_visibleTiles # {}) =>
        LET xs == {t.x : t \in m_visibleTiles}
            ys == {t.y : t \in m_visibleTiles}
            x0 == CHOOSE x \in xs : \A o \in xs : x <= o
            x1 == CHOOSE x \in xs : \A o \in xs : o <= x
            y0 == CHOOSE y \in ys : \A o \in ys : y <= o
            y1 == CHOOSE y \in ys : \A o \in ys : o <= y
        IN  m_visibleTiles =
                {TileID(x, y, intZoom(m_zoom)) : x \in x0 .. x1, y \in y0 .. y1}

\* C17: getBoundsRect() is the rectangle around the position whose extent is
\* the world extent of the current zoom, screen size and pixel density.
C17_BoundsCurrent ==
    LET m == updateMatrices(m_zoom, m_vpHeight, m_aspect, m_pixelScale, m_roll)
    IN  getBoundsRect = <<m_pos.x - m.width \div 2, m_pos.y - m.height \div 2,
                          m_pos.x + m.width \div 2, m_pos.y + m.height \div 2>>

\* C18: zoom(dz) stores the zoom setZoom(m_zoom + dz) stores and sets
\* m_isZoomIn to dz > 0; no other call changes m_isZoomIn.
C18_ZoomHint ==
    [][/\ lastCall'.op = "zoom"
             => /\ m_isZoomIn' = (lastCall'.req - m_zoom > 0)
                /\ m_zoom' = clamp(lastCall'.req, 0, s_maxZoom)
                /\ m_dirty'
       /\ lastCall'.op # "zoom" => m_isZoomIn' = m_isZoomIn]_vars

\* zoom(dz) with dz > 0 has run at the maximum zoom: the stored zoom stayed
\* the same and the hint says zooming in
C18_Witness ==
    /\ lastCall.op = "zoom" /\ lastCall.req > s_maxZoom
    /\ m_zoom = s_maxZoom /\ m_isZoomIn

\* C19: a release of button 1 after the cursor moved with the button down
\* invokes no gesture, leaves last_mouse_up unchanged and clears was_panning;
\* a release without such a move invokes a tap or a double tap.
C19_DragIsNoTap ==
    [][lastEvent'.ev = "GLFW_RELEASE"
          => IF lastEvent.moved
             THEN /\ lastEvent'.gesture = "none"
                  /\ last_mouse_up' = last_mouse_up
                  /\ ~was_panning'
             ELSE lastEvent'.gesture \in
                      {"handleTapGesture", "handleDoubleTapGesture"}]_vars

\* a release after a drag has invoked nothing, after an earlier tap
C19_Witness ==
    /\ lastEvent.ev = "GLFW_RELEASE" /\ lastEvent.moved
    /\ lastEvent.gesture = "none" /\ ~was_panning
    /\ lastEvent.tapped /\ last_mouse_up < clock

\* C20: a release of button 1 without movement invokes the double tap if a
\* release was delivered as a tap less than double_tap_time before it, else
\* the tap; the first release is no double tap; a press and an event of
\* another button invoke nothing.
C20_TapOrDoubleTap ==
    [][/\ (lastEvent'.ev = "GLFW_RELEASE" /\ ~lastEvent.moved)
             => lastEvent'.gesture =
                    IF /\ lastEvent.tapped
                       /\ clock - lastEvent.tapTime < double_tap_time
                    THEN "handleDoubleTapGesture" ELSE "handleTapGesture"
       /\ (lastEvent'.ev = "GLFW_RELEASE" /\ ~lastEvent.tapped)
             => lastEvent'.gesture # "handleDoubleTapGesture"
       /\ lastEvent'.ev \in {"GLFW_PRESS", "other"}
             => lastEvent'.gesture = "none"]_vars

\* a release without movement has been delivered as a double tap
C20_Witness ==
    /\ lastEvent.ev = "GLFW_RELEASE" /\ ~lastEvent.moved
    /\ lastEvent.gesture = "handleDoubleTapGesture"
    /\ last_mouse_up = clock /\ clock > 0

=============================================================================
